---- MODULE Spec2Model ----
(***************************************************************************)
(* Model of airflow/utils/sqlalchemy.py: setup_event_handlers installs     *)
(* three SQLAlchemy event handlers on an engine:                           *)
(*   ping_connection (engine_connect), connect (connect) and               *)
(*   checkout (checkout).                                                  *)
(*                                                                         *)
(* Time is counted in ticks.  One second is Scale ticks, with Scale a      *)
(* multiple of a power of the jitter denominator JD, so that               *)
(* backoff += backoff * U is computed exactly for every U = u / JD (see    *)
(* ExactArithmetic).  The wall clock (time.time) is read in steps of       *)
(* DurTick, half a second; it may stand still between two readings and it  *)
(* may be set back.                                                        *)
(***************************************************************************)
EXTENDS Integers, Sequences, FiniteSets, TLC

(* ---------------------------- bounds ---------------------------------- *)
\* reconnect_timeout_seconds ranges over -1 .. MaxTimeout (seconds)
MaxTimeout == 2
\* initial_backoff_seconds ranges over -1 .. MaxInitial (seconds)
MaxInitial == 1
\* max_backoff_seconds ranges over -1 .. MaxCeiling (seconds)
MaxCeiling == 1
\* while a probe (connection.scalar) runs, time.time() moves by
\* -1 .. MaxDur steps of DurTick: the probe returns at once, or takes up to
\* MaxDur steps, or the wall clock is set back
MaxDur == 4
\* random.random() is drawn from {u / JD : u \in 0 .. JD - 1}
JD == 2
\* process identifiers are 1 .. MaxPid
MaxPid == 2
\* consecutive checkouts of one physical connection that the model follows
MaxCheckouts == 2
\* probes of one call that the model follows.  The loop of ping_connection
\* (while True) sets no limit: with a clock that stands still or is set
\* back, or with sleeps of no length, a call makes any number of probes and
\* of backoff updates.  The model follows the first MaxProbes probes of a
\* call and nothing after them
MaxProbes == 6

Threads == {"t1", "t2"}
Records == {"r1", "r2"}

RECURSIVE Pow(_, _)
Pow(b, n) == IF n = 0 THEN 1 ELSE b * Pow(b, n - 1)
\* the step of the wall clock, half a second: a power of JD that keeps every
\* backoff update the model follows exact (one update at most per probe)
DurTick == Pow(JD, MaxProbes)
Scale == 2 * DurTick

Min(a, b) == IF a <= b THEN a ELSE b

(* ---------------------------- state ----------------------------------- *)
VARIABLES
  \* arguments of setup_event_handlers, in ticks
  reconnect_timeout_seconds, initial_backoff_seconds, max_backoff_seconds,
  \* one ping_connection call per thread, each on a connection of its own
  pc,                             \* "idle", "probing" or "sleeping"
  branch,                         \* the call's branch argument
  should_close_with_result,       \* connection.should_close_with_result
  entry_flag,                     \* that flag when the call was entered
  save_should_close_with_result,  \* local of ping_connection
  elapsed,                        \* time.time() - start, in ticks
  backoff,                        \* local of ping_connection, in ticks
  jitter,                         \* numerator u of the last random.random()
  sleep_for,                      \* argument of the last time.sleep
  slept,                          \* sum of the call's sleep durations
  probed,                         \* what the clock moved by during probes
  nProbes,                        \* connection.scalar calls of this call
  nSleeps,                        \* sleeps this call has begun
  last_err,                       \* what the last probe raised
  result,                         \* "none", "returned" or "raised"
  raised,                         \* the exception the call ended with
  log,                            \* log records written by this call
  \* the pool, as seen by the process the model follows
  pid,                            \* os.getpid()
  info_pid,                       \* connection_record.info['pid']
  rec_connection,                 \* connection_record.connection
  proxy_connection,               \* connection_proxy.connection
  ck_result,                      \* outcome of the last checkout of a record
  ck_msg,                         \* pids named by the DisconnectionError
  ck_seen,                        \* <<info['pid'], os.getpid()>> at checkout
  ck_n,                           \* checkouts of the physical connection
  ck_log                          \* log records written by the last checkout

cfgVars == <<reconnect_timeout_seconds, initial_backoff_seconds,
             max_backoff_seconds>>
pingVars == <<pc, branch, should_close_with_result, entry_flag,
              save_should_close_with_result, elapsed, backoff, jitter,
              sleep_for, slept, probed, nProbes, nSleeps, last_err, result,
              raised, log>>
poolVars == <<pid, info_pid, rec_connection, proxy_connection, ck_result,
              ck_msg, ck_seen, ck_n, ck_log>>
vars == <<cfgVars, pingVars, poolVars>>

(* ---------------------------- values ---------------------------------- *)
NoErr == [class |-> "none", connection_invalidated |-> FALSE, probe |-> 0]
\* exc.DBAPIError raised by probe number n
DBAPIError(inv, n) ==
  [class |-> "DBAPIError", connection_invalidated |-> inv, probe |-> n]
\* any exception that is not an exc.DBAPIError, raised by probe number n
OtherError(n) ==
  [class |-> "Exception", connection_invalidated |-> FALSE, probe |-> n]
\* time.sleep refuses a negative duration
SleepError(n) ==
  [class |-> "SleepError", connection_invalidated |-> FALSE, probe |-> n]

\* the three log records ping_connection writes
LogTimeout ==
  [level |-> "error", msg |-> "Failed to re-establish DB connection"]
LogInvalidated_AsError ==
  [level |-> "error", msg |-> "DB connection invalidated. Reconnecting..."]
LogInvalidated ==
  [level |-> "warning", msg |-> "DB connection invalidated. Reconnecting..."]
LogUnknown_Warning ==
  [level |-> "warning",
   msg |-> "Unknown database connection error. Not retrying"]
LogUnknown ==
  [level |-> "error", msg |-> "Unknown database connection error. Not retrying"]

None == "None"
DBAPIConnection == "dbapi_connection"
NoPid == 0

(* ------------------- ping_connection, piece by piece ------------------ *)
\* if branch: return
SkipPing_Never(br) == FALSE
SkipPing(br) == br

\* backoff = initial_backoff_seconds: a local of the call of thread t
StartBackoff_Shared(t) ==
  LET o == CHOOSE x \in Threads : x # t
  IN  IF nSleeps[o] > 0 THEN backoff[o] ELSE initial_backoff_seconds
StartBackoff(t) == initial_backoff_seconds

\* connection.should_close_with_result = False
ProbeFlag_On == TRUE
ProbeFlag == FALSE

\* finally: connection.should_close_with_result = save_should_close_with_result
RestoredFlag_Off(t) == FALSE
RestoredFlag(t) == save_should_close_with_result[t]

\* if time.time() - start >= reconnect_timeout_seconds
TimedOut_Strict(el) == el > reconnect_timeout_seconds
TimedOut_Never(el) == FALSE
TimedOut_PositiveOnly(el) ==
  reconnect_timeout_seconds > 0 /\ el >= reconnect_timeout_seconds
TimedOut(el) == el >= reconnect_timeout_seconds

\* if err.connection_invalidated
Retryable_Always(err) == TRUE
Retryable_Never(err) == FALSE
Retryable(err) == err.connection_invalidated

\* backoff += backoff * random.random(), with random.random() = u / JD
NextBackoff_Shrink(b, u) == b - (b * u) \div JD
NextBackoff_Double(b, u) == 2 * b
NextBackoff(b, u) == b + (b * u) \div JD

\* min(backoff, max_backoff_seconds)
SleepDuration_Uncapped(b) == b
SleepDuration(b) == Min(b, max_backoff_seconds)

\* time.time() - start, once d more ticks have passed since it was el:
\* start is taken once, before the loop
ElapsedAfter_PerAttempt(el, d) == d
ElapsedAfter(el, d) == el + d

\* what time.time() may have moved by, in steps of DurTick, when a probe
\* of thread t ends: nothing in the code bounds it or keeps it positive
ProbeDurations(t) == -1 .. MaxDur

Jitters == 0 .. (JD - 1)

(* ---------------------------- ping_connection ------------------------- *)
\* The call ends: the finally clause runs, then the function is left.
Leave(t, how, err) ==
  /\ should_close_with_result' =
       [should_close_with_result EXCEPT ![t] = RestoredFlag(t)]
  /\ pc' = [pc EXCEPT ![t] = "idle"]
  /\ result' = [result EXCEPT ![t] = how]
  /\ raised' = [raised EXCEPT ![t] = err]

\* ping_connection(connection, branch) is called with a connection whose
\* should_close_with_result is f; it runs up to the first probe.
ping_connection(t, br, f) ==
  /\ pc[t] = "idle"
  /\ branch' = [branch EXCEPT ![t] = br]
  /\ entry_flag' = [entry_flag EXCEPT ![t] = f]
  /\ elapsed' = [elapsed EXCEPT ![t] = 0]
  /\ jitter' = [jitter EXCEPT ![t] = 0]
  /\ sleep_for' = [sleep_for EXCEPT ![t] = 0]
  /\ slept' = [slept EXCEPT ![t] = 0]
  /\ probed' = [probed EXCEPT ![t] = 0]
  /\ nProbes' = [nProbes EXCEPT ![t] = 0]
  /\ nSleeps' = [nSleeps EXCEPT ![t] = 0]
  /\ last_err' = [last_err EXCEPT ![t] = NoErr]
  /\ raised' = [raised EXCEPT ![t] = NoErr]
  /\ log' = [log EXCEPT ![t] = <<>>]
  /\ IF SkipPing(br)
       THEN /\ should_close_with_result' =
                 [should_close_with_result EXCEPT ![t] = f]
            /\ save_should_close_with_result' =
                 [save_should_close_with_result EXCEPT ![t] = FALSE]
            /\ backoff' = [backoff EXCEPT ![t] = 0]
            /\ pc' = pc
            /\ result' = [result EXCEPT ![t] = "returned"]
       ELSE /\ backoff' = [backoff EXCEPT ![t] = StartBackoff(t)]
            /\ save_should_close_with_result' =
                 [save_should_close_with_result EXCEPT ![t] = f]
            /\ should_close_with_result' =
                 [should_close_with_result EXCEPT ![t] = ProbeFlag]
            /\ pc' = [pc EXCEPT ![t] = "probing"]
            /\ result' = [result EXCEPT ![t] = "none"]
  /\ UNCHANGED <<cfgVars, poolVars>>

\* connection.scalar(select([1])) returns with the clock moved by
\* d steps: break, finally.
ProbeSucceeds(t, d) ==
  /\ pc[t] = "probing"
  /\ nProbes[t] < MaxProbes
  /\ probed' = [probed EXCEPT ![t] = @ + d * DurTick]
  /\ nProbes' = [nProbes EXCEPT ![t] = @ + 1]
  /\ elapsed' = [elapsed EXCEPT ![t] = ElapsedAfter(@, d * DurTick)]
  /\ last_err' = [last_err EXCEPT ![t] = NoErr]
  /\ Leave(t, "returned", NoErr)
  /\ UNCHANGED <<cfgVars, poolVars, branch, entry_flag,
                 save_should_close_with_result, backoff, jitter, sleep_for,
                 slept, nSleeps, log>>

\* connection.scalar raises an exception that is no DBAPIError, the
\* clock moved by d steps: no except clause takes it, finally runs, it
\* propagates.
ProbeRaisesOther(t, d) ==
  /\ pc[t] = "probing"
  /\ nProbes[t] < MaxProbes
  /\ probed' = [probed EXCEPT ![t] = @ + d * DurTick]
  /\ nProbes' = [nProbes EXCEPT ![t] = @ + 1]
  /\ elapsed' = [elapsed EXCEPT ![t] = ElapsedAfter(@, d * DurTick)]
  /\ last_err' = [last_err EXCEPT ![t] = OtherError(nProbes[t] + 1)]
  /\ Leave(t, "raised", OtherError(nProbes[t] + 1))
  /\ UNCHANGED <<cfgVars, poolVars, branch, entry_flag,
                 save_should_close_with_result, backoff, jitter, sleep_for,
                 slept, nSleeps, log>>

\* connection.scalar raises exc.DBAPIError, the clock moved by d steps;
\* u is the value
\* random.random() returns if the handler gets to the backoff update.
ProbeRaisesDBAPIError(t, d, inv, u) ==
  LET n == nProbes[t] + 1
      err == DBAPIError(inv, n)
      el == ElapsedAfter(elapsed[t], d * DurTick)
      b == NextBackoff(backoff[t], u)
      dur == SleepDuration(b)
  IN
  /\ pc[t] = "probing"
  /\ nProbes[t] < MaxProbes
  /\ probed' = [probed EXCEPT ![t] = @ + d * DurTick]
  /\ nProbes' = [nProbes EXCEPT ![t] = n]
  /\ elapsed' = [elapsed EXCEPT ![t] = el]
  /\ last_err' = [last_err EXCEPT ![t] = err]
  /\ IF TimedOut(el)
       THEN /\ log' = [log EXCEPT ![t] = Append(@, LogTimeout)]
            /\ Leave(t, "raised", err)
            /\ UNCHANGED <<backoff, jitter, sleep_for, nSleeps>>
       ELSE IF Retryable(err)
         THEN /\ log' = [log EXCEPT ![t] = Append(@, LogInvalidated)]
              /\ backoff' = [backoff EXCEPT ![t] = b]
              /\ jitter' = [jitter EXCEPT ![t] = u]
              /\ sleep_for' = [sleep_for EXCEPT ![t] = dur]
              /\ IF dur < 0
                   THEN \* time.sleep raises at once; finally runs
                        /\ Leave(t, "raised", SleepError(n))
                        /\ UNCHANGED nSleeps
                   ELSE /\ nSleeps' = [nSleeps EXCEPT ![t] = @ + 1]
                        /\ pc' = [pc EXCEPT ![t] = "sleeping"]
                        /\ UNCHANGED <<should_close_with_result, result,
                                       raised>>
         ELSE /\ log' = [log EXCEPT ![t] = Append(@, LogUnknown)]
              /\ Leave(t, "raised", err)
              /\ UNCHANGED <<backoff, jitter, sleep_for, nSleeps>>
  /\ UNCHANGED <<cfgVars, poolVars, branch, entry_flag,
                 save_should_close_with_result, slept>>

\* time.sleep returns; continue: finally restores the flag, the loop's
\* first statement turns it off again, the next probe is about to run.
SleepReturns(t) ==
  /\ pc[t] = "sleeping"
  /\ elapsed' = [elapsed EXCEPT ![t] = ElapsedAfter(@, sleep_for[t])]
  /\ slept' = [slept EXCEPT ![t] = @ + sleep_for[t]]
  /\ should_close_with_result' =
       [should_close_with_result EXCEPT ![t] = ProbeFlag]
  /\ pc' = [pc EXCEPT ![t] = "probing"]
  /\ UNCHANGED <<cfgVars, poolVars, branch, entry_flag,
                 save_should_close_with_result, backoff, jitter, sleep_for,
                 probed, nProbes, nSleeps, last_err, result, raised, log>>

(* ---------------------------- connect, checkout ---------------------- *)
\* connection_record.info['pid'] = os.getpid()
StampedPid_Unset == NoPid
StampedPid == pid

\* connection_record.info['pid'] finds no 'pid' key
InfoPidMissing_Ignored(r) == FALSE
InfoPidMissing(r) == info_pid[r] = NoPid

\* the log records checkout writes: it has no logging statement
CheckoutLog == <<>>

\* if connection_record.info['pid'] != pid
PidMismatch_Never(owner, current) == FALSE
PidMismatch(owner, current) == owner # current

\* connection_record.connection = connection_proxy.connection = None, done
\* on a mismatch only; h is the handle held before the handler ran
HandleAfterCheckout_Cleared(h, mismatch) == None
HandleAfterCheckout(h, mismatch) == IF mismatch THEN None ELSE h

\* The pool establishes the physical connection of record r (the record
\* holds none) and dispatches the connect event.
connect(r) ==
  /\ rec_connection[r] = None
  /\ rec_connection' = [rec_connection EXCEPT ![r] = DBAPIConnection]
  /\ info_pid' = [info_pid EXCEPT ![r] = StampedPid]
  /\ proxy_connection' = [proxy_connection EXCEPT ![r] = None]
  /\ ck_result' = [ck_result EXCEPT ![r] = "none"]
  /\ ck_msg' = [ck_msg EXCEPT ![r] = <<>>]
  /\ ck_seen' = [ck_seen EXCEPT ![r] = <<>>]
  /\ ck_n' = [ck_n EXCEPT ![r] = 0]
  /\ ck_log' = [ck_log EXCEPT ![r] = <<>>]
  /\ UNCHANGED <<cfgVars, pingVars, pid>>

\* os.fork(): the model follows the child, whose os.getpid() is new and
\* whose memory holds a copy of every connection record.
fork ==
  /\ pid < MaxPid
  /\ pid' = pid + 1
  /\ UNCHANGED <<cfgVars, pingVars, info_pid, rec_connection,
                 proxy_connection, ck_result, ck_msg, ck_seen, ck_n,
                 ck_log>>

\* The pool checks record r out: it wraps the record's connection in a
\* proxy and dispatches the checkout event.
checkout(r) ==
  LET h == rec_connection[r] IN
  /\ h # None
  /\ ck_n[r] < MaxCheckouts
  /\ ck_n' = [ck_n EXCEPT ![r] = @ + 1]
  /\ ck_seen' = [ck_seen EXCEPT ![r] = <<info_pid[r], pid>>]
  /\ ck_log' = [ck_log EXCEPT ![r] = CheckoutLog]
  /\ IF InfoPidMissing(r)
       THEN \* connection_record.info['pid'] raises KeyError
            /\ ck_result' = [ck_result EXCEPT ![r] = "KeyError"]
            /\ ck_msg' = [ck_msg EXCEPT ![r] = <<>>]
            /\ proxy_connection' = [proxy_connection EXCEPT ![r] = h]
            /\ UNCHANGED rec_connection
       ELSE LET mismatch == PidMismatch(info_pid[r], pid) IN
            /\ rec_connection' =
                 [rec_connection EXCEPT ![r] = HandleAfterCheckout(h, mismatch)]
            /\ proxy_connection' =
                 [proxy_connection EXCEPT ![r] = HandleAfterCheckout(h, mismatch)]
            /\ ck_result' = [ck_result EXCEPT ![r] =
                 IF mismatch THEN "DisconnectionError" ELSE "ok"]
            /\ ck_msg' = [ck_msg EXCEPT ![r] =
                 IF mismatch THEN <<info_pid[r], pid>> ELSE <<>>]
  /\ UNCHANGED <<cfgVars, pingVars, pid, info_pid>>

(* ---------------------------- specifications -------------------------- *)
InitPing ==
  /\ pc = [t \in Threads |-> "idle"]
  /\ branch = [t \in Threads |-> FALSE]
  /\ should_close_with_result = [t \in Threads |-> FALSE]
  /\ entry_flag = [t \in Threads |-> FALSE]
  /\ save_should_close_with_result = [t \in Threads |-> FALSE]
  /\ elapsed = [t \in Threads |-> 0]
  /\ backoff = [t \in Threads |-> 0]
  /\ jitter = [t \in Threads |-> 0]
  /\ sleep_for = [t \in Threads |-> 0]
  /\ slept = [t \in Threads |-> 0]
  /\ probed = [t \in Threads |-> 0]
  /\ nProbes = [t \in Threads |-> 0]
  /\ nSleeps = [t \in Threads |-> 0]
  /\ last_err = [t \in Threads |-> NoErr]
  /\ result = [t \in Threads |-> "none"]
  /\ raised = [t \in Threads |-> NoErr]
  /\ log = [t \in Threads |-> <<>>]

\* a record holds no connection yet, or one that was established before
\* the handlers were installed (and so never stamped)
InitPool ==
  /\ pid = 1
  /\ info_pid = [r \in Records |-> NoPid]
  /\ rec_connection \in [Records -> {None, DBAPIConnection}]
  /\ proxy_connection = [r \in Records |-> None]
  /\ ck_result = [r \in Records |-> "none"]
  /\ ck_msg = [r \in Records |-> <<>>]
  /\ ck_seen = [r \in Records |-> <<>>]
  /\ ck_n = [r \in Records |-> 0]
  /\ ck_log = [r \in Records |-> <<>>]

InitConfig ==
  /\ reconnect_timeout_seconds \in {s * Scale : s \in -1 .. MaxTimeout}
  /\ initial_backoff_seconds \in {s * Scale : s \in -1 .. MaxInitial}
  /\ max_backoff_seconds \in {s * Scale : s \in -1 .. MaxCeiling}

\* the configuration with every setting at its largest value
NominalConfig ==
  /\ reconnect_timeout_seconds = MaxTimeout * Scale
  /\ initial_backoff_seconds = MaxInitial * Scale
  /\ max_backoff_seconds = MaxCeiling * Scale

\* the configurations with both backoff settings at their largest value
BackoffAtMax ==
  /\ initial_backoff_seconds = MaxInitial * Scale
  /\ max_backoff_seconds = MaxCeiling * Scale

\* the outcomes of one probe, over every duration and jitter value
Succeeds(t) == \E d \in ProbeDurations(t) : ProbeSucceeds(t, d)
RaisesOther(t) == \E d \in ProbeDurations(t) : ProbeRaisesOther(t, d)
RaisesDBAPIError(t) ==
  \E d \in ProbeDurations(t), inv \in BOOLEAN, u \in Jitters :
    ProbeRaisesDBAPIError(t, d, inv, u)

Call(t) == \E br \in BOOLEAN, f \in BOOLEAN : ping_connection(t, br, f)

\* one thread calling ping_connection again and again, any configuration
PingInit ==
  /\ InitConfig
  /\ InitPing
  /\ InitPool
  /\ rec_connection = [r \in Records |-> None]
PingNext ==
  \/ Call("t1")
  \/ Succeeds("t1")
  \/ RaisesOther("t1")
  \/ RaisesDBAPIError("t1")
  \/ SleepReturns("t1")
PingSpec == PingInit /\ [][PingNext]_vars

\* the same with every probe and every sleep completing: connection.scalar
\* and time.sleep return or raise
Probe(t) == Succeeds(t) \/ RaisesOther(t) \/ RaisesDBAPIError(t)
FairPingSpec ==
  /\ PingInit /\ [][PingNext]_vars
  /\ WF_vars(Probe("t1"))
  /\ WF_vars(SleepReturns("t1"))

\* the pool's connect and checkout events of one process and its forks
PoolInit == NominalConfig /\ InitPing /\ InitPool
PoolNext == fork \/ \E r \in Records : connect(r) \/ checkout(r)
PoolSpec == PoolInit /\ [][PoolNext]_vars

\* two threads calling ping_connection at the same time, each on a
\* connection of its own, under a timeout of one second
ConcInit == PingInit /\ BackoffAtMax /\ reconnect_timeout_seconds = Scale
ConcNext ==
  \/ PingNext
  \/ Call("t2")
  \/ Succeeds("t2")
  \/ RaisesOther("t2")
  \/ RaisesDBAPIError("t2")
  \/ SleepReturns("t2")
ConcSpec == ConcInit /\ [][ConcNext]_vars

\* all three handlers of one engine: one thread calling ping_connection
\* and the pool events of one connection record, under any timeout
Init ==
  /\ InitConfig /\ BackoffAtMax
  /\ InitPing /\ InitPool
  /\ rec_connection["r2"] = None
Next == PingNext \/ fork \/ connect("r1") \/ checkout("r1")
Spec == Init /\ [][Next]_vars

(* ---------------------------- sanity ---------------------------------- *)
\* backoff * u / JD is a whole number of ticks at every update
ExactArithmetic ==
  \A t \in Threads : \A u \in Jitters :
    (pc[t] = "probing" /\ nProbes[t] < MaxProbes)
      => (backoff[t] * u) % JD = 0
\* a call updates backoff at most once per probe, so DurTick provides for
\* every update the model follows
BoundedRetries == \A t \in Threads : nSleeps[t] <= nProbes[t]

(* ---------------------------- properties ------------------------------ *)
NoLog == [level |-> "none", msg |-> ""]
\* the last log record of thread t's call, NoLog if it wrote none
LastLog(t) == IF log[t] = <<>> THEN NoLog ELSE log[t][Len(log[t])]
IsDBAPIError(e) == e.class = "DBAPIError"
IsInvalidation(e) == e.class = "DBAPIError" /\ e.connection_invalidated
\* the call of thread t has ended by raising what its last probe raised
RaisedLastError(t) ==
  /\ pc[t] = "idle"
  /\ result[t] = "raised"
  /\ raised[t] = last_err[t]
  /\ last_err[t].probe = nProbes[t]
  /\ nSleeps[t] = nProbes[t] - 1

\* both backoff settings are positive
PositiveBackoff == initial_backoff_seconds > 0 /\ max_backoff_seconds > 0

\* C1: a probe that raises a DBAPIError which is no invalidation ends the
\* call at once, at any attempt: the call raises that very error, it was
\* the last probe, and every sleep of the call came before it.
C1_NonInvalidationRaisesAtOnce ==
  \A t \in Threads :
    (IsDBAPIError(last_err[t]) /\ ~last_err[t].connection_invalidated)
      => RaisedLastError(t)
\* a non-invalidation error at the third probe, below the timeout
C1_Witness ==
  \E t \in Threads :
    /\ IsDBAPIError(last_err[t]) /\ ~last_err[t].connection_invalidated
    /\ nProbes[t] = 3
    /\ LastLog(t) = LogUnknown

\* C2 as stated: N invalidated failures followed by a success make the call
\* return normally whenever the cumulative sleep time stays below
\* reconnect_timeout_seconds; so, with positive backoff settings, no
\* invalidated failure may end the call while the sleeps made so far plus
\* the shortest next one are below it.
C2_Original ==
  \A t \in Threads :
    (/\ result[t] = "raised" /\ IsInvalidation(raised[t])
     /\ initial_backoff_seconds > 0 /\ max_backoff_seconds > 0)
      => ~(slept[t] + Min(backoff[t], max_backoff_seconds)
             < reconnect_timeout_seconds)
\* C2 amended: an invalidated failure ends the call only at an elapsed
\* time (probe durations included) of reconnect_timeout_seconds or more,
\* or when time.sleep refuses a negative duration; a call that returns
\* normally after N invalidated failures made exactly N sleeps and N + 1
\* probes.
C2_RetriesUntilElapsedTimeout ==
  \A t \in Threads :
    /\ (result[t] = "raised" /\ IsInvalidation(raised[t]))
         => elapsed[t] >= reconnect_timeout_seconds
    /\ (result[t] = "raised" /\ raised[t].class = "SleepError")
         => (sleep_for[t] < 0 /\ IsInvalidation(last_err[t]))
    /\ (pc[t] = "sleeping")
         => (IsInvalidation(last_err[t]) /\ nSleeps[t] = nProbes[t])
    /\ (pc[t] = "probing") => nSleeps[t] = nProbes[t]
    /\ (result[t] = "returned" /\ ~branch[t])
         => /\ nProbes[t] = nSleeps[t] + 1
            /\ Len(log[t]) = nSleeps[t]
            /\ \A i \in 1 .. Len(log[t]) : log[t][i] = LogInvalidated
\* three invalidated failures, then success: 3 sleeps, 4 probes
C2_Witness ==
  \E t \in Threads :
    /\ result[t] = "returned" /\ ~branch[t]
    /\ nSleeps[t] = 3 /\ nProbes[t] = 4
    /\ slept[t] < reconnect_timeout_seconds

\* C3: when a non-branch call has ended, however it ended, the connection's
\* should_close_with_result is what it was when the call began.
C3_FlagRestored ==
  \A t \in Threads :
    (pc[t] = "idle" /\ result[t] # "none" /\ ~branch[t])
      => should_close_with_result[t] = entry_flag[t]
\* a call entered with the flag on that ends, after a retry, with an
\* exception that is no DBAPIError
C3_Witness ==
  \E t \in Threads :
    /\ pc[t] = "idle" /\ ~branch[t] /\ entry_flag[t]
    /\ result[t] = "raised" /\ raised[t].class = "Exception"
    /\ nSleeps[t] >= 1
    /\ should_close_with_result[t]

\* C4 as stated: once the elapsed time has reached
\* reconnect_timeout_seconds with a probe failed and none succeeded, the
\* call has failed with the timeout error and nothing follows; checked
\* where the timeout and the backoff settings are positive.
C4_Original ==
  \A t \in Threads :
    (/\ IsDBAPIError(last_err[t]) /\ elapsed[t] >= reconnect_timeout_seconds
     /\ reconnect_timeout_seconds > 0 /\ PositiveBackoff)
      => (RaisedLastError(t) /\ LastLog(t) = LogTimeout)
\* C4 amended: a probe that raises a DBAPIError at an elapsed time of
\* reconnect_timeout_seconds or more ends the call: the timeout is logged,
\* that error is re-raised, no sleep and no probe follows.  (While the call
\* sleeps or has ended, elapsed is the time of its last failure.)
C4_TimeoutAtFailure ==
  \A t \in Threads :
    (/\ IsDBAPIError(last_err[t])
     /\ pc[t] # "probing"
     /\ elapsed[t] >= reconnect_timeout_seconds)
      => (RaisedLastError(t) /\ LastLog(t) = LogTimeout)
\* a timeout reached after two sleeps
C4_Witness ==
  \E t \in Threads :
    /\ RaisedLastError(t) /\ IsInvalidation(raised[t])
    /\ LastLog(t) = LogTimeout
    /\ nSleeps[t] = 2
    /\ reconnect_timeout_seconds > 0

\* the call of thread t is in progress after the last probe that the model
\* follows
Horizon(t) == pc[t] = "probing" /\ nProbes[t] = MaxProbes
C6_Original ==
  \A t \in Threads :
    (pc[t] = "probing" /\ nSleeps[t] >= 1 /\ reconnect_timeout_seconds > 0)
      => elapsed[t] <= reconnect_timeout_seconds
\* C6 amended: every sleep begins less than reconnect_timeout_seconds after
\* the call's start and lasts at most max_backoff_seconds, so it ends less
\* than reconnect_timeout_seconds + max_backoff_seconds after the start.
C6_SleepsBeginBeforeTimeout ==
  \A t \in Threads :
    /\ (pc[t] = "sleeping")
         => /\ elapsed[t] < reconnect_timeout_seconds
            /\ 0 <= sleep_for[t] /\ sleep_for[t] <= max_backoff_seconds
    /\ (pc[t] = "probing" /\ nSleeps[t] >= 1)
         => elapsed[t] < reconnect_timeout_seconds + max_backoff_seconds
\* a sleep that ended after reconnect_timeout_seconds
C6_Witness ==
  \E t \in Threads :
    /\ pc[t] = "probing" /\ nSleeps[t] >= 1
    /\ elapsed[t] > reconnect_timeout_seconds

\* the step in which thread t's call logs the invalidation and updates
\* its backoff
Retries(t) ==
  /\ Len(log'[t]) = Len(log[t]) + 1
  /\ log'[t][Len(log'[t])] = LogInvalidated
BackoffGrows(t) ==
  /\ backoff'[t] >= backoff[t]
  /\ (jitter'[t] > 0 => backoff'[t] > backoff[t])
  /\ (pc'[t] = "sleeping")
       => /\ sleep_for'[t] = Min(backoff'[t], max_backoff_seconds)
          /\ sleep_for'[t] <= max_backoff_seconds
\* C7 as stated: in every configuration (here: in every one with a
\* positive timeout and without a negative backoff setting), a retry never
\* decreases the backoff, increases it when U > 0, and sleeps
\* min(backoff, max_backoff).
C7_Original ==
  [][\A t \in Threads :
       (/\ Retries(t)
        /\ reconnect_timeout_seconds > 0
        /\ initial_backoff_seconds >= 0
        /\ max_backoff_seconds >= 0) => BackoffGrows(t)]_vars
\* C7 amended: the same, for initial_backoff_seconds > 0.
C7_BackoffGrowsFromPositive ==
  [][\A t \in Threads :
       (Retries(t) /\ initial_backoff_seconds > 0) => BackoffGrows(t)]_vars
\* a second sleep with U > 0 whose backoff exceeds the ceiling
C7_Witness ==
  \E t \in Threads :
    /\ pc[t] = "sleeping" /\ nSleeps[t] = 2 /\ jitter[t] > 0
    /\ backoff[t] > max_backoff_seconds
    /\ backoff[t] > initial_backoff_seconds
    /\ sleep_for[t] = max_backoff_seconds

\* C8: a call with branch true has returned normally without a probe, a
\* sleep, a log record or an error, and has left should_close_with_result
\* as it found it.
C8_BranchIsNoOp ==
  \A t \in Threads :
    branch[t]
      => /\ pc[t] = "idle" /\ result[t] = "returned"
         /\ nProbes[t] = 0 /\ nSleeps[t] = 0
         /\ log[t] = <<>>
         /\ raised[t] = NoErr /\ last_err[t] = NoErr
         /\ should_close_with_result[t] = entry_flag[t]
\* a branch call on a connection whose flag is on
C8_Witness ==
  \E t \in Threads :
    branch[t] /\ entry_flag[t] /\ result[t] = "returned"

\* C9: a checkout of a stamped record succeeds exactly if the record's pid
\* is the current pid; otherwise it raises DisconnectionError naming both
\* pids, with the connection cleared on the record and on the proxy.
C9_CheckoutByOwnerOnly ==
  \A r \in Records :
    (ck_result[r] # "none" /\ ck_seen[r][1] # NoPid)
      => /\ (ck_result[r] = "ok") <=> (ck_seen[r][1] = ck_seen[r][2])
         /\ (ck_seen[r][1] # ck_seen[r][2])
              => /\ ck_result[r] = "DisconnectionError"
                 /\ ck_msg[r] = ck_seen[r]
                 /\ rec_connection[r] = None
                 /\ proxy_connection[r] = None
\* connected in pid 1, checked out after a fork in pid 2
C9_Witness ==
  \E r \in Records :
    /\ ck_result[r] = "DisconnectionError"
    /\ ck_msg[r] = <<1, 2>>
    /\ rec_connection[r] = None /\ proxy_connection[r] = None

\* C10: a checkout in the owner's process returns normally and leaves the
\* record's connection, the proxy's connection and the record's pid as
\* they were, at every checkout.
C10_OwnerCheckoutChangesNothing ==
  \A r \in Records :
    (ck_result[r] # "none" /\ ck_seen[r][1] # NoPid
       /\ ck_seen[r][1] = ck_seen[r][2])
      => /\ ck_result[r] = "ok"
         /\ rec_connection[r] = DBAPIConnection
         /\ proxy_connection[r] = DBAPIConnection
         /\ info_pid[r] = ck_seen[r][1]
\* the second checkout of a connection by its owner, a forked child
C10_Witness ==
  \E r \in Records :
    /\ ck_result[r] = "ok" /\ ck_n[r] = 2
    /\ ck_seen[r] = <<2, 2>>
    /\ rec_connection[r] = DBAPIConnection

\* C11: the pid of a record is written only by the connect event of a newly
\* established physical connection, and every such event writes the pid of
\* the establishing process; no checkout, fork or ping_connection step
\* changes it.
C11_OwnerPidWrittenByConnectOnly ==
  [][\A r \in Records :
       /\ (info_pid'[r] # info_pid[r])
            => /\ rec_connection[r] = None
               /\ rec_connection'[r] = DBAPIConnection
               /\ pingVars' = pingVars
       /\ (rec_connection[r] = None /\ rec_connection'[r] = DBAPIConnection)
            => (info_pid'[r] = pid /\ pid' = pid)]_vars
\* a record stamped in pid 1 kept its stamp through a refused checkout in
\* pid 2 and through a call of ping_connection whose probes failed at once
\* and that retried
C11_Witness ==
  \E r \in Records :
    /\ info_pid[r] = 1 /\ ck_result[r] = "DisconnectionError" /\ pid = 2
    /\ result["t1"] = "returned" /\ nSleeps["t1"] > 0 /\ probed["t1"] = 0

\* a log holds a record of level error
HasErrorLog(l) == \E i \in 1 .. Len(l) : l[i].level = "error"

\* C12 as stated: every DBAPIError that ping_connection raises and every
\* DisconnectionError that checkout raises comes after an error-level log
\* record of the same handler call.
C12_Original ==
  /\ \A t \in Threads :
       (result[t] = "raised" /\ IsDBAPIError(raised[t]))
         => HasErrorLog(log[t])
  /\ \A r \in Records :
       ck_result[r] = "DisconnectionError" => HasErrorLog(ck_log[r])
\* C12 amended: every DBAPIError that ping_connection raises comes right
\* after an error-level log record of the same call; checkout writes no log
\* record, whether it returns or raises.
C12_PingErrorsLogged ==
  /\ \A t \in Threads :
       (result[t] = "raised" /\ IsDBAPIError(raised[t]))
         => LastLog(t).level = "error"
  /\ \A r \in Records : ck_log[r] = <<>>
\* an unknown error raised at once by the first probe of ping_connection
\* and a checkout refused in a forked process
C12_Witness ==
  /\ \E t \in Threads :
       /\ result[t] = "raised" /\ IsDBAPIError(raised[t])
       /\ ~raised[t].connection_invalidated
       /\ nProbes[t] = 1 /\ probed[t] = 0
       /\ LastLog(t).level = "error" /\ elapsed[t] < reconnect_timeout_seconds
  /\ \E r \in Records :
       ck_result[r] = "DisconnectionError" /\ ck_log[r] = <<>>

\* C13 as stated: a raised DBAPIError is logged as unknown exactly if it is
\* no invalidation, and as the timeout exactly if it is an invalidation at
\* elapsed >= reconnect_timeout_seconds; checked where the timeout and the
\* backoff settings are positive.
C13_Original ==
  \A t \in Threads :
    (/\ result[t] = "raised" /\ IsDBAPIError(raised[t])
     /\ reconnect_timeout_seconds > 0 /\ PositiveBackoff)
      => /\ (LastLog(t) = LogUnknown) <=> ~raised[t].connection_invalidated
         /\ (LastLog(t) = LogTimeout)
              <=> (/\ raised[t].connection_invalidated
                   /\ elapsed[t] >= reconnect_timeout_seconds)
\* C13 amended: the elapsed time is tested first; a raised DBAPIError is
\* logged as the timeout exactly if elapsed >= reconnect_timeout_seconds,
\* invalidation or not, and as unknown exactly if elapsed is below it, and
\* then it is no invalidation.
C13_TimeoutTestedFirst ==
  \A t \in Threads :
    (result[t] = "raised" /\ IsDBAPIError(raised[t]))
      => /\ (LastLog(t) = LogTimeout)
              <=> (elapsed[t] >= reconnect_timeout_seconds)
         /\ (LastLog(t) = LogUnknown)
              <=> (elapsed[t] < reconnect_timeout_seconds)
         /\ (elapsed[t] < reconnect_timeout_seconds)
              => ~raised[t].connection_invalidated
\* a non-invalidation error at a re-probe past a positive timeout
C13_Witness ==
  \E t \in Threads :
    /\ result[t] = "raised" /\ IsDBAPIError(raised[t])
    /\ ~raised[t].connection_invalidated
    /\ reconnect_timeout_seconds > 0
    /\ elapsed[t] >= reconnect_timeout_seconds
    /\ nSleeps[t] > 0
    /\ LastLog(t) = LogTimeout

\* C14: the elapsed time of a call is counted from the call's start at
\* every failure: it is what the clock moved by during all probes of the
\* call plus all its sleeps, a retry changes it by nothing but the sleep's
\* duration; a sleep begins only at an elapsed time below
\* reconnect_timeout_seconds, and an invalidated failure is raised exactly
\* at one that has reached it.
C14_ElapsedFromSingleStart ==
  /\ [](\A t \in Threads :
          /\ elapsed[t] = probed[t] + slept[t]
          /\ pc[t] = "sleeping" => elapsed[t] < reconnect_timeout_seconds
          /\ (result[t] = "raised" /\ IsInvalidation(raised[t]))
               => /\ elapsed[t] >= reconnect_timeout_seconds
                  /\ LastLog(t) = LogTimeout)
  /\ [][\A t \in Threads :
          (pc[t] = "sleeping" /\ pc'[t] = "probing")
            => elapsed'[t] = elapsed[t] + sleep_for[t]]_vars
\* a timeout after a retry, where all the sleeps together and all the
\* probes together are shorter than the timeout
C14_Witness ==
  \E t \in Threads :
    /\ result[t] = "raised" /\ IsInvalidation(raised[t])
    /\ nSleeps[t] >= 1
    /\ slept[t] > 0 /\ slept[t] < reconnect_timeout_seconds
    /\ probed[t] > 0 /\ probed[t] < reconnect_timeout_seconds
    /\ LastLog(t) = LogTimeout

\* C15 as stated, second half: while the call sleeps, the flag holds the
\* saved value; checked where the timeout and the backoff settings are
\* positive.
C15_Original ==
  \A t \in Threads :
    (pc[t] = "sleeping" /\ reconnect_timeout_seconds > 0 /\ PositiveBackoff)
      => should_close_with_result[t] = save_should_close_with_result[t]
\* C15 amended: the flag is false at every probe and while the call
\* sleeps; it holds the saved value once the call has ended.
C15_FlagOffUntilSleepReturns ==
  \A t \in Threads :
    /\ pc[t] \in {"probing", "sleeping"} => ~should_close_with_result[t]
    /\ (pc[t] = "idle" /\ ~branch[t] /\ result[t] # "none")
         => should_close_with_result[t] = save_should_close_with_result[t]
\* the second sleep of a call on a connection whose flag was on
C15_Witness ==
  \E t \in Threads :
    /\ pc[t] = "sleeping" /\ nSleeps[t] = 2
    /\ save_should_close_with_result[t]
    /\ ~should_close_with_result[t]

\* the warning records of the call of thread t
Warnings(t) ==
  Cardinality({i \in 1 .. Len(log[t]) : log[t][i].level = "warning"})
\* the call of thread t went past its branch test and has ended
Ended(t) == pc[t] = "idle" /\ ~branch[t] /\ result[t] # "none"

\* C16 as stated: when a call has ended, it logged as many warnings as it
\* slept, and probed once more than it slept; checked where the timeout is
\* positive.
C16_Original ==
  \A t \in Threads :
    (Ended(t) /\ reconnect_timeout_seconds > 0)
      => (Warnings(t) = nSleeps[t] /\ nProbes[t] = nSleeps[t] + 1)
\* C16 amended: each sleep comes after its warning and its backoff update
\* and before its re-probe, and a call that ends otherwise than by an
\* error of time.sleep has as many warnings as sleeps and one probe more;
\* time.sleep raises on a negative duration, after the warning, and such a
\* call ends with one warning more than sleeps.
C16_WarningUpdateSleepProbe ==
  \A t \in Threads :
    /\ pc[t] = "sleeping"
         => /\ LastLog(t) = LogInvalidated
            /\ sleep_for[t] = Min(backoff[t], max_backoff_seconds)
            /\ sleep_for[t] >= 0
    /\ pc[t] \in {"probing", "sleeping"}
         => (Warnings(t) = nSleeps[t] /\ nProbes[t] = nSleeps[t])
    /\ (Ended(t) /\ raised[t].class # "SleepError")
         => (Warnings(t) = nSleeps[t] /\ nProbes[t] = nSleeps[t] + 1)
    /\ (Ended(t) /\ raised[t].class = "SleepError")
         => /\ Warnings(t) = nSleeps[t] + 1
            /\ nProbes[t] = nSleeps[t] + 1
            /\ Min(backoff[t], max_backoff_seconds) < 0
    /\ (Ended(t) /\ IsInvalidation(raised[t])) => LastLog(t) = LogTimeout
\* a call that returned after three sleeps
C16_Witness ==
  \E t \in Threads :
    /\ Ended(t) /\ result[t] = "returned"
    /\ nSleeps[t] = 3 /\ Warnings(t) = 3 /\ nProbes[t] = 4

\* C17 as stated: the backoff b_k of the k-th sleep satisfies
\* initial_backoff_seconds <= b_k < initial_backoff_seconds * 2^k, and the
\* first one is not initial_backoff_seconds itself; checked where the
\* timeout and the backoff settings are positive.
C17_Original ==
  \A t \in Threads :
    (pc[t] = "sleeping" /\ reconnect_timeout_seconds > 0 /\ PositiveBackoff)
      => /\ initial_backoff_seconds <= backoff[t]
         /\ backoff[t] < initial_backoff_seconds * Pow(2, nSleeps[t])
         /\ nSleeps[t] = 1 => backoff[t] # initial_backoff_seconds
\* C17 amended: with a positive initial_backoff_seconds the bounds hold,
\* b_1 being initial_backoff_seconds itself when the first draw is 0; with
\* initial_backoff_seconds = 0 every b_k is 0; the sleep is
\* min(b_k, max_backoff_seconds) while b_k itself is not capped.
C17_BackoffBounds ==
  \A t \in Threads :
    pc[t] = "sleeping"
      => /\ initial_backoff_seconds >= 0
         /\ initial_backoff_seconds <= backoff[t]
         /\ initial_backoff_seconds > 0
              => backoff[t] < initial_backoff_seconds * Pow(2, nSleeps[t])
         /\ initial_backoff_seconds = 0 => backoff[t] = 0
         /\ (nSleeps[t] = 1 /\ jitter[t] = 0)
              => backoff[t] = initial_backoff_seconds
         /\ sleep_for[t] = Min(backoff[t], max_backoff_seconds)
\* a third sleep whose backoff has passed twice the initial one and the
\* ceiling
C17_Witness ==
  \E t \in Threads :
    /\ pc[t] = "sleeping" /\ nSleeps[t] = 3
    /\ initial_backoff_seconds > 0
    /\ backoff[t] > 2 * initial_backoff_seconds
    /\ backoff[t] > max_backoff_seconds
    /\ sleep_for[t] = max_backoff_seconds

\* everything the call of thread t reads or writes
PingState(t) ==
  <<pc[t], branch[t], should_close_with_result[t], entry_flag[t],
    save_should_close_with_result[t], elapsed[t], backoff[t], jitter[t],
    sleep_for[t], slept[t], nProbes[t], nSleeps[t], last_err[t], result[t],
    raised[t], log[t]>>

\* thread t has begun a call that passed the branch test
Pinged(t) == ~branch[t] /\ (pc[t] # "idle" \/ result[t] # "none")
\* C18: whatever the other thread's call does, the elapsed time of a call
\* is what the clock moved by during the call's own probes and sleeps, its
\* backoff is initial_backoff_seconds grown by its own updates, its sleeps
\* are min(backoff, max_backoff_seconds) of its own backoff, and it times
\* out by its own elapsed time; a step of one thread's call leaves every
\* part of the other thread's call as it is, and a call that begins does so
\* with elapsed = 0 and backoff = initial_backoff_seconds.
C18_CallsAreIndependent ==
  /\ [](\A t \in Threads :
         Pinged(t)
           => /\ elapsed[t] = probed[t] + slept[t]
              /\ slept[t] <= nSleeps[t] * max_backoff_seconds
              /\ initial_backoff_seconds <= backoff[t]
              /\ backoff[t] <= initial_backoff_seconds * Pow(2, nSleeps[t])
              /\ nSleeps[t] = 0 => backoff[t] = initial_backoff_seconds
              /\ nSleeps[t] > 0
                   => sleep_for[t] = Min(backoff[t], max_backoff_seconds)
              /\ pc[t] = "sleeping"
                   => elapsed[t] < reconnect_timeout_seconds
              /\ (result[t] = "raised" /\ IsInvalidation(raised[t]))
                   => elapsed[t] >= reconnect_timeout_seconds)
  /\ [][\A t \in Threads : \A o \in Threads \ {t} :
         /\ (PingState(t)' # PingState(t)) => (PingState(o)' = PingState(o))
         /\ (pc[t] = "idle" /\ pc'[t] = "probing")
              => /\ elapsed'[t] = 0
                 /\ backoff'[t] = initial_backoff_seconds
                 /\ slept'[t] = 0 /\ nSleeps'[t] = 0]_vars
\* a call begins while the other thread's call is in a sleep with
\* a grown backoff
C18_Witness ==
  \E t \in Threads : \E o \in Threads \ {t} :
    /\ pc[o] = "sleeping" /\ nSleeps[o] >= 1
    /\ backoff[o] > initial_backoff_seconds
    /\ elapsed[o] > 0
    /\ pc[t] = "probing" /\ nProbes[t] = 0
    /\ elapsed[t] = 0 /\ backoff[t] = initial_backoff_seconds

\* C19 as stated: with reconnect_timeout_seconds <= 0 a first probe that
\* raises an invalidation ends the call: it raises that error after one
\* probe, with no warning and no sleep, the timeout having been logged;
\* checked where the backoff settings are positive.
C19_Original ==
  \A t \in Threads :
    (/\ reconnect_timeout_seconds <= 0 /\ IsInvalidation(last_err[t])
     /\ PositiveBackoff)
      => /\ RaisedLastError(t)
         /\ nProbes[t] = 1 /\ nSleeps[t] = 0
         /\ Warnings(t) = 0
         /\ log[t] = <<LogTimeout>>
\* C19 amended: with reconnect_timeout_seconds <= 0 a first probe that
\* raises an invalidation ends the call as stated if the clock reads no
\* less than reconnect_timeout_seconds after the call's start, which it
\* does unless it was set back during the probe; if it reads less, the
\* warning is logged and the call goes on to its first sleep.
C19_NoRetryUnlessClockSetBack ==
  \A t \in Threads :
    (/\ reconnect_timeout_seconds <= 0
     /\ IsInvalidation(last_err[t]) /\ nProbes[t] = 1)
      => IF probed[t] >= reconnect_timeout_seconds
           THEN /\ RaisedLastError(t)
                /\ nSleeps[t] = 0
                /\ Warnings(t) = 0
                /\ log[t] = <<LogTimeout>>
           ELSE /\ probed[t] < 0
                /\ log[t] = <<LogInvalidated>>
                /\ \/ pc[t] # "idle" /\ nSleeps[t] = 1
                   \/ raised[t].class = "SleepError"
\* an invalidation under a timeout of zero, the clock not set back
C19_Witness ==
  \E t \in Threads :
    /\ reconnect_timeout_seconds = 0
    /\ initial_backoff_seconds > 0 /\ max_backoff_seconds > 0
    /\ IsInvalidation(raised[t])
    /\ nProbes[t] = 1 /\ probed[t] >= 0

\* C20: a checkout of a record that was never stamped fails with the
\* missing-key error, not with the disconnection error, and leaves the
\* record's and the proxy's connection as the pool set them.
C20_UnstampedCheckoutKeyError ==
  \A r \in Records :
    (ck_result[r] # "none" /\ ck_seen[r][1] = NoPid)
      => /\ ck_result[r] = "KeyError"
         /\ ck_msg[r] = <<>>
         /\ rec_connection[r] = DBAPIConnection
         /\ proxy_connection[r] = DBAPIConnection
         /\ info_pid[r] = NoPid
\* the second checkout of a never-stamped record, in a forked process
C20_Witness ==
  \E r \in Records :
    /\ ck_result[r] = "KeyError" /\ ck_n[r] = 2 /\ pid = 2
    /\ proxy_connection[r] = DBAPIConnection
====
